---- MODULE Spec2Model ----
(***************************************************************************)
(* Model of the UniversalRenderer of backend/rendering/universal_renderer  *)
(* (design-system constrained validation and specification -> JSX           *)
(* compilation).  Strings are sequences of one-character strings, so that  *)
(* formatting, the '/' test of token references and the emitted markup are *)
(* modelled character by character.                                        *)
(***************************************************************************)
EXTENDS Integers, Sequences, FiniteSets, TLC

VARIABLES design_system, tokens, components, spec, call, outcome, reused,
          walk, service, sandbox, app

vars ==
    <<design_system, tokens, components, spec, call, outcome, reused, walk, service,
      sandbox, app>>

renderer == <<design_system, tokens, components, spec, call, outcome, reused>>

\* what a call on the renderer leaves alone besides the renderer itself
others == <<walk, service, sandbox, app>>

\* what a step of the recursion leaves alone besides the renderer
beside_walk == <<service, sandbox, app>>

\* what the generation service leaves alone besides the renderer
beside_service == <<walk, sandbox, app>>

\* what the dashboard's Sandbox leaves alone
beside_sandbox == <<renderer, walk, service, app>>

\* what App and its useDesignSystem hook leave alone
beside_app == <<renderer, walk, service, sandbox>>

(***************************************************************************)
(* Bounds of the model.                                                    *)
(***************************************************************************)
MaxNodes == 3
MaxStartDepth == 1

(***************************************************************************)
(* Generic helpers on sequences.                                           *)
(***************************************************************************)
Range(s) == {s[i] : i \in 1..Len(s)}

\* Python's sep.join(parts)
RECURSIVE Join(_, _)
Join(parts, sep) ==
    IF parts = <<>> THEN <<>>
    ELSE IF Len(parts) = 1 THEN parts[1]
    ELSE parts[1] \o sep \o Join(Tail(parts), sep)

\* Python's unit * n for a string unit
RECURSIVE Repeat(_, _)
Repeat(unit, n) == IF n <= 0 THEN <<>> ELSE unit \o Repeat(unit, n - 1)

Digits == <<"0", "1", "2", "3", "4", "5", "6", "7", "8", "9">>

\* str() of a non-negative integer, as an f-string formats it
RECURSIVE FormatInt(_)
FormatInt(n) ==
    IF n < 10 THEN <<Digits[n + 1]>>
    ELSE FormatInt(n \div 10) \o <<Digits[(n % 10) + 1]>>

(***************************************************************************)
(* Values of the data model.                                               *)
(***************************************************************************)
\* a prop value: a str, a bool, an int or anything else (None, list, ...)
StrV(s) == [kind |-> "str", s |-> s, b |-> FALSE, n |-> 0]
BoolV(b) == [kind |-> "bool", s |-> <<>>, b |-> b, n |-> 0]
IntV(n) == [kind |-> "int", s |-> <<>>, b |-> FALSE, n |-> n]
NoneV == [kind |-> "none", s |-> <<>>, b |-> FALSE, n |-> 0]

Prop(k, v) == [key |-> k, value |-> v]

Node(t, p, c, ch) == [type |-> t, props |-> p, content |-> c, children |-> ch]

\* a token record; typography records of the plugin carry no 'value' field
Token(nm, hv, v) == [name |-> nm, has_value |-> hv, value |-> v]

Component(nm) == [name |-> nm]

\* a component as the plugin exports it, told apart by its node id
ComponentNode(id, nm) == [name |-> nm, id |-> id]

NoError == [kind |-> "none", name |-> <<>>, raisedBy |-> "none"]

Error(k, nm, by) == [kind |-> k, name |-> nm, raisedBy |-> by]

\* variant: a name already indexed keeps its first record
IndexPutIfAbsent(index, k, v) ==
    [x \in (DOMAIN index) \cup {k} |->
        IF x \in DOMAIN index THEN index[x] ELSE v]

(***************************************************************************)
(* Index build: _index_tokens / _index_components.                         *)
(***************************************************************************)
\* index[key] = value on a Python dict
IndexPut(index, k, v) ==
    [x \in (DOMAIN index) \cup {k} |-> IF x = k THEN v ELSE index[x]]

EmptyIndex == [x \in {} |-> x]

RECURSIVE IndexAll(_, _)
IndexAll(index, records) ==
    IF records = <<>> THEN index
    ELSE IndexAll(IndexPut(index, Head(records).name, Head(records)), Tail(records))

\* variant: the sub-collections are indexed in the opposite order
TokenTypesReversed == <<"spacing", "typography", "colors">>

TokenTypes == <<"colors", "typography", "spacing">>

RECURSIVE IndexTokenTypes(_, _, _)
IndexTokenTypes(index, ds, i) ==
    IF i > Len(TokenTypes) THEN index
    ELSE IndexTokenTypes(IndexAll(index, ds.tokens[TokenTypes[i]]), ds, i + 1)

IndexTokens(ds) == IndexTokenTypes(EmptyIndex, ds, 1)

IndexComponents(ds) == IndexAll(EmptyIndex, ds.components)

(***************************************************************************)
(* _is_token_reference, _component_exists, _resolve_token.                 *)
(***************************************************************************)
IsTokenReference(value) ==
    value.kind = "str" /\ \E i \in 1..Len(value.s) : value.s[i] = "/"

ComponentExists(cs, component_name) == component_name \in DOMAIN cs

\* result of a call that may raise: ok with a value, or the error raised
Ok(v) == [ok |-> TRUE, err |-> NoError, val |-> v]
Raise(e) == [ok |-> FALSE, err |-> e, val |-> <<>>]

\* variant: the reference is not replaced by the token's value
ResolveTokenKeepingName(ts, token_name) ==
    IF token_name \in DOMAIN ts
    THEN Ok(token_name)
    ELSE Raise(Error("UnknownToken", token_name, "_resolve_token"))

\* variant: the record's value is read with ['value'], a KeyError without one
ResolveTokenRequiringValue(ts, token_name) ==
    IF token_name \in DOMAIN ts
    THEN IF ts[token_name].has_value THEN Ok(ts[token_name].value)
         ELSE Raise(Error("KeyError", <<"v", "a", "l", "u", "e">>, "_resolve_token"))
    ELSE Raise(Error("UnknownToken", token_name, "_resolve_token"))

\* variant: a record without a value resolves to the empty string
ResolveTokenEmptyDefault(ts, token_name) ==
    IF token_name \in DOMAIN ts
    THEN Ok(IF ts[token_name].has_value THEN ts[token_name].value ELSE <<>>)
    ELSE Raise(Error("UnknownToken", token_name, "_resolve_token"))

\* variant: an unknown token resolves to its own name instead of raising
ResolveTokenUnchecked(ts, token_name) ==
    Ok(IF token_name \in DOMAIN ts /\ ts[token_name].has_value
       THEN ts[token_name].value ELSE token_name)

ResolveToken(ts, token_name) ==
    IF token_name \in DOMAIN ts
    THEN Ok(IF ts[token_name].has_value THEN ts[token_name].value ELSE token_name)
    ELSE Raise(Error("UnknownToken", token_name, "_resolve_token"))

(***************************************************************************)
(* validate_specification.                                                 *)
(***************************************************************************)
\* the loop over props.items(), from the i-th item on
RECURSIVE ValidateProps(_, _, _)
\* variant: the error names the prop's key instead of its value
ValidatePropsNamingKey(ts, props, i) ==
    IF i > Len(props) THEN NoError
    ELSE IF IsTokenReference(props[i].value) /\ props[i].value.s \notin DOMAIN ts
         THEN Error("UnknownToken", props[i].key, "validate_node")
         ELSE ValidateProps(ts, props, i + 1)

ValidateProps(ts, props, i) ==
    IF i > Len(props) THEN NoError
    ELSE IF IsTokenReference(props[i].value) /\ props[i].value.s \notin DOMAIN ts
         THEN Error("UnknownToken", props[i].value.s, "validate_node")
         ELSE ValidateProps(ts, props, i + 1)

RECURSIVE ValidateNode(_, _, _)
RECURSIVE ValidateChildren(_, _, _, _)
\* variant: the loop returns after its first child
ValidateFirstChildOnly(ts, cs, children, i) ==
    IF i > Len(children) THEN NoError
    ELSE ValidateNode(ts, cs, children[i])

ValidateChildren(ts, cs, children, i) ==
    IF i > Len(children) THEN NoError
    ELSE LET e == ValidateNode(ts, cs, children[i])
         IN  IF e # NoError THEN e ELSE ValidateChildren(ts, cs, children, i + 1)

\* variant: the children are validated before the node's own props
ValidateNodeChildrenFirst(ts, cs, node) ==
    IF ~ComponentExists(cs, node.type)
    THEN Error("UnknownComponent", node.type, "validate_node")
    ELSE LET e == ValidateChildren(ts, cs, node.children, 1)
         IN  IF e # NoError THEN e
             ELSE ValidateProps(ts, node.props, 1)

ValidateNode(ts, cs, node) ==
    IF ~ComponentExists(cs, node.type)
    THEN Error("UnknownComponent", node.type, "validate_node")
    ELSE LET e == ValidateProps(ts, node.props, 1)
         IN  IF e # NoError THEN e
             ELSE ValidateChildren(ts, cs, node.children, 1)

ValidateSpecification(ts, cs, s) ==
    LET e == ValidateNode(ts, cs, s)
    IN  IF e # NoError THEN Raise(e) ELSE Ok(<<>>)

(***************************************************************************)
(* specification_to_jsx.                                                   *)
(***************************************************************************)
\* variant: a bool prop is emitted whatever its value
AttributeOfAnyBool(key, value, token_value) ==
    CASE value.kind = "str" /\ IsTokenReference(value) ->
             <<key \o <<"=", "\"">> \o token_value \o <<"\"">> >>
      [] value.kind = "str" /\ ~IsTokenReference(value) ->
             <<key \o <<"=", "\"">> \o value.s \o <<"\"">> >>
      [] value.kind = "bool" -> <<key>>
      [] value.kind = "int" -> <<key \o <<"=">> \o FormatInt(value.n)>>
      [] OTHER -> <<>>

\* one JSX attribute of _resolve_props; <<>> when the value is dropped
Attribute(key, value, token_value) ==
    CASE value.kind = "str" /\ IsTokenReference(value) ->
             <<key \o <<"=", "\"">> \o token_value \o <<"\"">> >>
      [] value.kind = "str" /\ ~IsTokenReference(value) ->
             <<key \o <<"=", "\"">> \o value.s \o <<"\"">> >>
      [] value.kind = "bool" -> IF value.b THEN <<key>> ELSE <<>>
      [] value.kind = "int" -> <<key \o <<"=">> \o FormatInt(value.n)>>
      [] OTHER -> <<>>

\* the loop of _resolve_props from the i-th item on, parts collected so far
RECURSIVE ResolvePropsFrom(_, _, _, _)
ResolvePropsFrom(ts, props, i, parts) ==
    IF i > Len(props) THEN Ok(Join(parts, <<" ">>))
    ELSE LET value == props[i].value
             r == IF IsTokenReference(value) THEN ResolveToken(ts, value.s)
                  ELSE Ok(<<>>)
         IN  IF ~r.ok THEN r
             ELSE ResolvePropsFrom(ts, props, i + 1,
                                   parts \o Attribute(props[i].key, value, r.val))

ResolveProps(ts, props) == ResolvePropsFrom(ts, props, 1, <<>>)

IndentUnit == <<" ", " ">>

Indent(depth) == Repeat(IndentUnit, depth)

\* variant: the children are compiled at their parent's depth
SameDepth(depth) == depth

ChildDepth(depth) == depth + 1

\* variant: content is not looked at, a node without children is self-closing
ElementIgnoringContent(indent, component_type, jsx_props, children, content, children_jsx) ==
    IF children # <<>>
    THEN indent \o <<"<">> \o component_type \o <<" ">> \o jsx_props \o <<">">>
         \o <<"\n">> \o children_jsx \o <<"\n">>
         \o indent \o <<"<", "/">> \o component_type \o <<">">>
    ELSE indent \o <<"<">> \o component_type \o <<" ">> \o jsx_props
         \o <<" ", "/", ">">>

\* variant: a node with children has its content inlined before them
ElementInliningContent(indent, component_type, jsx_props, children, content, children_jsx) ==
    IF children # <<>>
    THEN indent \o <<"<">> \o component_type \o <<" ">> \o jsx_props \o <<">">>
         \o content \o <<"\n">> \o children_jsx \o <<"\n">>
         \o indent \o <<"<", "/">> \o component_type \o <<">">>
    ELSE IF content # <<>>
    THEN indent \o <<"<">> \o component_type \o <<" ">> \o jsx_props \o <<">">>
         \o content \o <<"<", "/">> \o component_type \o <<">">>
    ELSE indent \o <<"<">> \o component_type \o <<" ">> \o jsx_props
         \o <<" ", "/", ">">>

\* the three return statements of specification_to_jsx
Element(indent, component_type, jsx_props, children, content, children_jsx) ==
    IF children # <<>>
    THEN indent \o <<"<">> \o component_type \o <<" ">> \o jsx_props \o <<">">>
         \o <<"\n">> \o children_jsx \o <<"\n">>
         \o indent \o <<"<", "/">> \o component_type \o <<">">>
    ELSE IF content # <<>>
    THEN indent \o <<"<">> \o component_type \o <<" ">> \o jsx_props \o <<">">>
         \o content \o <<"<", "/">> \o component_type \o <<">">>
    ELSE indent \o <<"<">> \o component_type \o <<" ">> \o jsx_props
         \o <<" ", "/", ">">>

RECURSIVE SpecificationToJsx(_, _, _, _)
\* the list comprehension over children, from the i-th child on
RECURSIVE ChildrenToJsx(_, _, _, _, _, _)
ChildrenToJsx(ts, cs, children, depth, i, done) ==
    IF i > Len(children) THEN Ok(done)
    ELSE LET r == SpecificationToJsx(ts, cs, children[i], depth)
         IN  IF ~r.ok THEN r
             ELSE ChildrenToJsx(ts, cs, children, depth, i + 1, Append(done, r.val))

SpecificationToJsx(ts, cs, s, depth) ==
    IF ~ComponentExists(cs, s.type)
    THEN Raise(Error("UnknownComponent", s.type, "specification_to_jsx"))
    ELSE LET p == ResolveProps(ts, s.props)
         IN  IF ~p.ok THEN p
             ELSE LET c == IF s.children # <<>>
                           THEN ChildrenToJsx(ts, cs, s.children, ChildDepth(depth), 1, <<>>)
                           ELSE Ok(<<>>)
                  IN  IF ~c.ok THEN c
                      ELSE Ok(Element(Indent(depth), s.type, p.val, s.children,
                                      s.content, Join(c.val, <<"\n">>)))

(***************************************************************************)
(* extract_tokens_from_spec / extract_components_from_spec.                *)
(* A Python set is kept as a duplicate-free sequence; list(set) may yield  *)
(* its elements in any order.                                              *)
(***************************************************************************)
\* variant: a list is appended to instead of a set added to
ListAppend(acc, v) == Append(acc, v)

SetAdd(acc, v) == IF v \in Range(acc) THEN acc ELSE Append(acc, v)

ListOfSet(acc) ==
    {[i \in 1..Len(acc) |-> acc[p[i]]] : p \in Permutations(1..Len(acc))}

\* variant: the reference is collected whether or not the index has it
TokenIsReferenced(ts, value) == IsTokenReference(value)

TokenIsUsed(ts, value) == IsTokenReference(value) /\ value.s \in DOMAIN ts

RECURSIVE TokensOfProps(_, _, _, _)
TokensOfProps(ts, props, i, acc) ==
    IF i > Len(props) THEN acc
    ELSE TokensOfProps(ts, props, i + 1,
                       IF TokenIsUsed(ts, props[i].value)
                       THEN SetAdd(acc, props[i].value.s) ELSE acc)

RECURSIVE TokensOfNode(_, _, _)
RECURSIVE TokensOfChildren(_, _, _, _)
TokensOfChildren(ts, children, i, acc) ==
    IF i > Len(children) THEN acc
    ELSE TokensOfChildren(ts, children, i + 1, TokensOfNode(ts, children[i], acc))

TokensOfNode(ts, node, acc) ==
    TokensOfChildren(ts, node.children, 1, TokensOfProps(ts, node.props, 1, acc))

ExtractTokensFromSpec(ts, s) == ListOfSet(TokensOfNode(ts, s, <<>>))

ComponentIsUsed(cs, component_type) ==
    component_type # <<>> /\ ComponentExists(cs, component_type)

RECURSIVE ComponentsOfNode(_, _, _)
RECURSIVE ComponentsOfChildren(_, _, _, _)
ComponentsOfChildren(cs, children, i, acc) ==
    IF i > Len(children) THEN acc
    ELSE ComponentsOfChildren(cs, children, i + 1,
                              ComponentsOfNode(cs, children[i], acc))

ComponentsOfNode(cs, node, acc) ==
    ComponentsOfChildren(cs, node.children, 1,
                         IF ComponentIsUsed(cs, node.type)
                         THEN SetAdd(acc, node.type) ELSE acc)

ExtractComponentsFromSpec(cs, s) == ListOfSet(ComponentsOfNode(cs, s, <<>>))

(***************************************************************************)
(* Outcome of a call on the renderer.                                      *)
(***************************************************************************)
NoOutcome ==
    [status |-> "none", err |-> NoError, jsx |-> <<>>, tokens_used |-> <<>>,
     components_used |-> <<>>, valid |-> FALSE]

Raised(e) == [NoOutcome EXCEPT !.status = "raised", !.err = e]

Returned(jsx, tu, cu, valid) ==
    [NoOutcome EXCEPT !.status = "returned", !.jsx = jsx, !.tokens_used = tu,
                      !.components_used = cu, !.valid = valid]

\* variant: a failed validation is reported in the result instead of raised
RenderReportingInvalid(ts, cs, s) ==
    LET v == ValidateSpecification(ts, cs, s)
        j == SpecificationToJsx(ts, cs, s, 0)
    IN  {Returned(IF j.ok THEN j.val ELSE <<>>, tu, cu, v.ok /\ j.ok) :
             tu \in ExtractTokensFromSpec(ts, s),
             cu \in ExtractComponentsFromSpec(cs, s)}

\* every value render_design_specification may return or raise
RenderDesignSpecification(ts, cs, s) ==
    LET v == ValidateSpecification(ts, cs, s)
        j == SpecificationToJsx(ts, cs, s, 0)
    IN  IF ~v.ok THEN {Raised(v.err)}
        ELSE IF ~j.ok THEN {Raised(j.err)}
        ELSE {Returned(j.val, tu, cu, TRUE) :
                  tu \in ExtractTokensFromSpec(ts, s),
                  cu \in ExtractComponentsFromSpec(cs, s)}

(***************************************************************************)
(* Inputs: the design systems a renderer is built from and the             *)
(* specification trees passed to it.                                       *)
(***************************************************************************)
Button == <<"B">>
Text == <<"T">>
Primary500 == <<"p", "/", "5">>
Accent900 == <<"a", "/", "9">>
Blue == <<"#", "3">>
Red == <<"r">>
Go == <<"G">>

ColorLists == {<<>>, <<Token(Primary500, TRUE, Blue)>>}
TypographyLists == {<<>>, <<Token(Accent900, FALSE, <<>>)>>}
SpacingLists == {<<>>}
ComponentLists == {<<Component(Button)>>, <<Component(Button), Component(Text)>>}

DesignSystems ==
    {[tokens |-> [colors |-> c, typography |-> t, spacing |-> sp], components |-> cl] :
        c \in ColorLists, t \in TypographyLists, sp \in SpacingLists,
        cl \in ComponentLists}

\* (type, props, content) of a node
Label(t, p, c) == [type |-> t, props |-> p, content |-> c]

Labels ==
    { Label(Button, <<>>, <<>>),
      Label(Button, <<Prop(<<"c">>, StrV(Primary500)),
                      Prop(<<"w">>, StrV(Red))>>, Go),
      Label(Text, <<Prop(<<"c">>, StrV(Accent900))>>, <<>>),
      Label(Button, <<Prop(<<"c">>, StrV(Accent900)),
                      Prop(<<"w">>, StrV(Primary500))>>, <<>>),
      Label(Text, <<Prop(<<"b">>, BoolV(TRUE)), Prop(<<"d">>, BoolV(FALSE)),
                    Prop(<<"n">>, IntV(8)), Prop(<<"x">>, NoneV)>>, Go) }

\* the nodes of a tree, in depth-first pre-order
RECURSIVE PreOrder(_)
RECURSIVE PreOrderAll(_)
PreOrder(node) == <<node>> \o PreOrderAll(node.children)

PreOrderAll(children) ==
    IF children = <<>> THEN <<>>
    ELSE PreOrder(Head(children)) \o PreOrderAll(Tail(children))

\* the trees of exactly n nodes, and the sequences of trees of n nodes in all
RECURSIVE Trees(_)
RECURSIVE Forests(_)
Trees(n) ==
    {Node(l.type, l.props, l.content, f) : l \in Labels, f \in Forests(n - 1)}

Forests(n) ==
    IF n = 0 THEN {<<>>}
    ELSE UNION {{<<t>> \o f : t \in Trees(k), f \in Forests(n - k)} : k \in 1..n}

Specs == UNION {Trees(n) : n \in 1..MaxNodes}

(***************************************************************************)
(* The renderer as a state machine: one renderer instance, built from      *)
(* design_system, serves a sequence of calls.  call and outcome hold the   *)
(* last call and what it returned or raised; reused tells that the         *)
(* instance had served a call before the current request was made.         *)
(***************************************************************************)
\* one recursion frame: the node at `path` and the child its loop is at
Frame(path, next) == [path |-> path, next |-> next]

NoWalk ==
    [pass |-> "none", status |-> "idle", stack |-> <<>>, visited |-> <<>>,
     err |-> NoError]

\* the generated_screens table is empty and no request has been answered
NoResponse ==
    [http |-> 0, status |-> "none", screen_id |-> 0, design |-> <<>>, code |-> <<>>,
     tokens_used |-> <<>>, components_used |-> <<>>, message |-> NoError]

\* the body of a request: its prompt and design_system_id, <<>> when missing
RequestBody(prompt, design_system_id) ==
    [prompt |-> prompt, design_system_id |-> design_system_id]

NoService ==
    [generated_screens |-> <<>>, llm |-> <<>>, response |-> NoResponse,
     request_body |-> RequestBody(<<>>, <<>>)]

\* JavaScript null, and a state that holds a value instead
Null == [null |-> TRUE, value |-> ""]
Value(v) == [null |-> FALSE, value |-> v]

\* no fetch has settled
NoOutcomeOfFetch == [throws |-> FALSE, ok |-> FALSE, json |-> FALSE, body |-> "none",
                     text |-> ""]

NoEvent == [type |-> "none", request |-> 0, outcome |-> NoOutcomeOfFetch]

\* the result state: null, or the body of the response to a request
NullData == [null |-> TRUE, request |-> 0, body |-> "none"]
Data(request, body) == [null |-> FALSE, request |-> request, body |-> body]

\* useState(''), useState(false), useState(null), useState(null); no fetch sent
MountedSandbox ==
    [prompt |-> <<>>, loading |-> FALSE, result |-> NullData, error |-> Null,
     requests |-> <<>>, event |-> NoEvent]

\* the designSystem state of the hook: null, or the parsed body of the response
NoTokens == [colors |-> <<>>, typography |-> <<>>, spacing |-> <<>>]
NullBody == [null |-> TRUE, status |-> "none", tokens |-> NoTokens, components |-> <<>>]
Body(status, tks, cps) ==
    [null |-> FALSE, status |-> status, tokens |-> tks, components |-> cps]

\* App after its first render: useState(null), useState(true), useState(null),
\* useState('explorer'); the effect has not run yet
MountedApp ==
    [designSystem |-> NullBody, loading |-> TRUE, error |-> Null,
     activeTab |-> "explorer", fetches |-> 0, pending |-> FALSE, screen |-> "loading"]

NoCall == [op |-> "none", spec |-> Node(<<>>, <<>>, <<>>, <<>>), depth |-> 0]

Called(op, s, depth) == [op |-> op, spec |-> s, depth |-> depth]

\* UniversalRenderer(design_system), and a specification to pass to it
Init ==
    /\ design_system \in DesignSystems
    /\ tokens = IndexTokens(design_system)
    /\ components = IndexComponents(design_system)
    /\ spec \in Specs
    /\ call = NoCall
    /\ outcome = NoOutcome
    /\ reused = FALSE
    /\ walk = NoWalk
    /\ service = NoService
    /\ sandbox = MountedSandbox
    /\ app = MountedApp

\* the caller takes the result and makes its next request, for the same
\* specification or a sub-tree of it, on the same renderer instance
NewRequest ==
    /\ call # NoCall
    /\ \E s \in {spec} \cup Range(spec.children) : spec' = s
    /\ call' = NoCall
    /\ outcome' = NoOutcome
    /\ reused' = TRUE
    /\ UNCHANGED <<design_system, tokens, components>>
    /\ UNCHANGED others

ValidateCall ==
    /\ call = NoCall
    /\ call' = Called("validate_specification", spec, 0)
    /\ LET v == ValidateSpecification(tokens, components, spec)
       IN  outcome' = IF v.ok THEN Returned(<<>>, <<>>, <<>>, TRUE)
                      ELSE Raised(v.err)
    /\ UNCHANGED <<design_system, tokens, components, spec, reused>>
    /\ UNCHANGED others

\* variant: the compiler pops the children off the tree it walks
JsxCallConsumingChildren ==
    /\ call = NoCall
    /\ \E depth \in 0..MaxStartDepth :
          /\ call' = Called("specification_to_jsx", spec, depth)
          /\ LET j == SpecificationToJsx(tokens, components, spec, depth)
             IN  outcome' = IF j.ok THEN Returned(j.val, <<>>, <<>>, FALSE)
                            ELSE Raised(j.err)
    /\ spec' = [spec EXCEPT !.children = <<>>]
    /\ UNCHANGED <<design_system, tokens, components, reused>>
    /\ UNCHANGED others

JsxCall ==
    /\ call = NoCall
    /\ \E depth \in 0..MaxStartDepth :
          /\ call' = Called("specification_to_jsx", spec, depth)
          /\ LET j == SpecificationToJsx(tokens, components, spec, depth)
             IN  outcome' = IF j.ok THEN Returned(j.val, <<>>, <<>>, FALSE)
                            ELSE Raised(j.err)
    /\ UNCHANGED <<design_system, tokens, components, spec, reused>>
    /\ UNCHANGED others

ExtractTokensCall ==
    /\ call = NoCall
    /\ call' = Called("extract_tokens_from_spec", spec, 0)
    /\ \E tu \in ExtractTokensFromSpec(tokens, spec) :
          outcome' = Returned(<<>>, tu, <<>>, FALSE)
    /\ UNCHANGED <<design_system, tokens, components, spec, reused>>
    /\ UNCHANGED others

ExtractComponentsCall ==
    /\ call = NoCall
    /\ call' = Called("extract_components_from_spec", spec, 0)
    /\ \E cu \in ExtractComponentsFromSpec(components, spec) :
          outcome' = Returned(<<>>, <<>>, cu, FALSE)
    /\ UNCHANGED <<design_system, tokens, components, spec, reused>>
    /\ UNCHANGED others

\* variant: the types of a rendered specification are added to the index
RenderCallRegisteringTypes ==
    /\ call = NoCall
    /\ call' = Called("render_design_specification", spec, 0)
    /\ outcome' \in RenderDesignSpecification(tokens, components, spec)
    /\ components' = IndexAll(components, [i \in 1..Len(PreOrder(spec)) |->
                                               Component(PreOrder(spec)[i].type)])
    /\ UNCHANGED <<design_system, tokens, spec, reused>>
    /\ UNCHANGED others

RenderCall ==
    /\ call = NoCall
    /\ call' = Called("render_design_specification", spec, 0)
    /\ outcome' \in RenderDesignSpecification(tokens, components, spec)
    /\ UNCHANGED <<design_system, tokens, components, spec, reused>>
    /\ UNCHANGED others

Next ==
    \/ NewRequest
    \/ ValidateCall
    \/ JsxCall
    \/ ExtractTokensCall
    \/ ExtractComponentsCall
    \/ RenderCall

Spec == Init /\ [][Next]_vars

TypeOK ==
    /\ design_system \in DesignSystems
    /\ spec \in Specs
    /\ outcome.status \in {"none", "returned", "raised"}
    /\ reused \in BOOLEAN

(***************************************************************************)
(* Observers used to state the properties: what a tree contains and what   *)
(* a design system declares, read off the data directly.                   *)
(***************************************************************************)
NodesOf(s) == Range(PreOrder(s))

HasSlash(str) == \E i \in 1..Len(str) : str[i] = "/"

\* the token-reference-shaped values among the props of a node, in order
TokenRefsOfNode(node) ==
    LET idx == {i \in 1..Len(node.props) :
                   node.props[i].value.kind = "str" /\ HasSlash(node.props[i].value.s)}
    IN  {node.props[i].value.s : i \in idx}

TokenRefsOf(s) == UNION {TokenRefsOfNode(n) : n \in NodesOf(s)}

TypesOf(s) == {n.type : n \in NodesOf(s)}

AllTokenRecords(ds) ==
    ds.tokens.colors \o ds.tokens.typography \o ds.tokens.spacing

TokenNames(ds) == {r.name : r \in Range(AllTokenRecords(ds))}

ComponentNames(ds) == {c.name : c \in Range(ds.components)}

UsesOnlyDesignSystem(ds, s) ==
    /\ TypesOf(s) \subseteq ComponentNames(ds)
    /\ TokenRefsOf(s) \subseteq TokenNames(ds)

\* the checks a validation has to make, as (kind, name) pairs in traversal
\* order: a node's type, then its token references, then its children
Check(k, nm) == [kind |-> k, name |-> nm]

RECURSIVE PropChecks(_)
PropChecks(props) ==
    IF props = <<>> THEN <<>>
    ELSE (IF Head(props).value.kind = "str" /\ HasSlash(Head(props).value.s)
          THEN <<Check("UnknownToken", Head(props).value.s)>> ELSE <<>>)
         \o PropChecks(Tail(props))

RECURSIVE ChecksOf(_)
ChecksOf(nodes) ==
    IF nodes = <<>> THEN <<>>
    ELSE <<Check("UnknownComponent", Head(nodes).type)>>
         \o PropChecks(Head(nodes).props) \o ChecksOf(Tail(nodes))

CheckFails(ds, c) ==
    IF c.kind = "UnknownComponent" THEN c.name \notin ComponentNames(ds)
    ELSE c.name \notin TokenNames(ds)

FailingChecks(ds, s) ==
    LET cs == ChecksOf(PreOrder(s))
    IN  {i \in 1..Len(cs) : CheckFails(ds, cs[i])}

FirstFailingCheck(ds, s) ==
    LET cs == ChecksOf(PreOrder(s))
        f == FailingChecks(ds, s)
    IN  cs[CHOOSE i \in f : \A j \in f : i <= j]

ValidateCalled == call.op = "validate_specification"

(***************************************************************************)
(* C1: validate_specification(S) on a renderer built from DS succeeds if   *)
(* and only if every node of S, at any depth, has a type that is a         *)
(* component name of DS and every prop value that is a string containing   *)
(* '/' is a token name of DS.                                              *)
(***************************************************************************)
C1_ValidateIffUsesOnlyDesignSystem ==
    ValidateCalled =>
        /\ outcome.status \in {"returned", "raised"}
        /\ (outcome.status = "returned")
               <=> UsesOnlyDesignSystem(design_system, call.spec)

\* a valid first child did not stop the check of an invalid second child
C1_Witness ==
    /\ ValidateCalled
    /\ Len(call.spec.children) >= 2
    /\ call.spec.type \in ComponentNames(design_system)
    /\ TokenRefsOfNode(call.spec) \subseteq TokenNames(design_system)
    /\ UsesOnlyDesignSystem(design_system, call.spec.children[1])
    /\ ~UsesOnlyDesignSystem(design_system, call.spec.children[2])
    /\ outcome.status = "raised"

(***************************************************************************)
(* C2: when a specification has several violations, validate fails with    *)
(* exactly the first one in depth-first pre-order, a node's type being     *)
(* checked before its props in order and those before its children.        *)
(***************************************************************************)
C2_FirstErrorInTraversalOrder ==
    (ValidateCalled /\ outcome.status = "raised") =>
        /\ FailingChecks(design_system, call.spec) # {}
        /\ Check(outcome.err.kind, outcome.err.name)
               = FirstFailingCheck(design_system, call.spec)

\* several different violations, one of them reported
C2_Witness ==
    /\ ValidateCalled
    /\ outcome.status = "raised"
    /\ LET cs == ChecksOf(PreOrder(call.spec))
       IN  Cardinality({cs[i] : i \in FailingChecks(design_system, call.spec)}) >= 3

(***************************************************************************)
(* C3: every failure of validate is an UnknownComponent carrying the type  *)
(* of a node that is not in the component index, or an UnknownToken        *)
(* carrying a token-reference-shaped prop value that is not in the token   *)
(* index; validation raises nothing else.                                  *)
(***************************************************************************)
C3_TwoErrorKinds ==
    (ValidateCalled /\ outcome.status = "raised") =>
        \/ /\ outcome.err.kind = "UnknownComponent"
           /\ outcome.err.name \in TypesOf(call.spec)
           /\ outcome.err.name \notin DOMAIN components
        \/ /\ outcome.err.kind = "UnknownToken"
           /\ outcome.err.name \in TokenRefsOf(call.spec)
           /\ outcome.err.name \notin DOMAIN tokens

C3_Witness ==
    /\ ValidateCalled
    /\ outcome.status = "raised"
    /\ outcome.err.kind = "UnknownToken"
    /\ outcome.err.name = Accent900
    /\ Accent900 \notin DOMAIN tokens

RenderCalled == call.op = "render_design_specification"

ExtractTokensCalled == call.op = "extract_tokens_from_spec"

ExtractComponentsCalled == call.op = "extract_components_from_spec"

(***************************************************************************)
(* C4: render_design_specification returns the complete result (markup,    *)
(* tokens used, components used) or raises and returns nothing: whenever   *)
(* a node has an unknown type or an unknown token reference, no markup and *)
(* no metadata come back.                                                  *)
(***************************************************************************)
C4_RenderAllOrNothing ==
    RenderCalled =>
        IF UsesOnlyDesignSystem(design_system, call.spec)
        THEN /\ outcome.status = "returned"
             /\ outcome.jsx # <<>>
             /\ outcome.valid
             /\ outcome.err = NoError
        ELSE /\ outcome.status = "raised"
             /\ outcome.err # NoError
             /\ outcome.jsx = <<>>
             /\ outcome.tokens_used = <<>>
             /\ outcome.components_used = <<>>
             /\ ~outcome.valid

\* the root is fine, a node below it is not, and nothing is returned
C4_Witness ==
    /\ RenderCalled
    /\ call.spec.type \in ComponentNames(design_system)
    /\ TokenRefsOfNode(call.spec) \subseteq TokenNames(design_system)
    /\ \E n \in NodesOf(call.spec) : n.type \notin ComponentNames(design_system)
    /\ outcome.status = "raised"
    /\ outcome.jsx = <<>>

(***************************************************************************)
(* C5: render_design_specification is deterministic and independent of     *)
(* the calls the renderer instance served before: its result is the one a  *)
(* renderer freshly built from the same design system gives for the same   *)
(* specification (same markup, same sets of tokens and components used).   *)
(***************************************************************************)
SameResult(r, o) ==
    /\ r.status = o.status
    /\ r.err = o.err
    /\ r.jsx = o.jsx
    /\ r.valid = o.valid
    /\ Range(r.tokens_used) = Range(o.tokens_used)
    /\ Range(r.components_used) = Range(o.components_used)

C5_RenderIndependentOfHistory ==
    RenderCalled =>
        \A r \in RenderDesignSpecification(IndexTokens(design_system),
                                           IndexComponents(design_system), call.spec) :
            SameResult(r, outcome)

\* a render served by an instance that had served other calls before
C5_Witness ==
    /\ RenderCalled
    /\ reused
    /\ outcome.status = "returned"
    /\ outcome.tokens_used # <<>>

NoDuplicates(lst) == \A i, j \in 1..Len(lst) : lst[i] = lst[j] => i = j

\* how many props of the tree have the value nm
Occurrences(s, nm) ==
    LET ns == PreOrder(s)
    IN  Cardinality({<<k, i>> \in (1..Len(ns)) \X (1..3) :
                        /\ i <= Len(ns[k].props)
                        /\ ns[k].props[i].value = StrV(nm)})

C7_ExtractedNamesAreDistinct ==
    (ExtractTokensCalled \/ ExtractComponentsCalled \/ RenderCalled) =>
        /\ NoDuplicates(outcome.tokens_used)
        /\ NoDuplicates(outcome.components_used)

\* a token referred to by several nodes, listed once
C7_Witness ==
    /\ ExtractTokensCalled
    /\ Occurrences(call.spec, Primary500) >= 2
    /\ Primary500 \in Range(outcome.tokens_used)
    /\ Len(outcome.tokens_used) = Cardinality(Range(outcome.tokens_used))

(***************************************************************************)
(* Observers of the emitted markup: its tags and its lines, read off the   *)
(* characters.                                                             *)
(***************************************************************************)
JsxCalled == call.op = "specification_to_jsx"

Compiled == (JsxCalled \/ RenderCalled) /\ outcome.status = "returned"

\* the first position from i on that holds the character c, or Len(m) + 1
RECURSIVE Find(_, _, _)
Find(m, c, i) ==
    IF i > Len(m) THEN Len(m) + 1
    ELSE IF m[i] = c THEN i ELSE Find(m, c, i + 1)

\* the tags "<...>" of the markup from position i on, in order
RECURSIVE TagsFrom(_, _)
TagsFrom(m, i) ==
    LET a == Find(m, "<", i)
        b == Find(m, ">", a)
    IN  IF a > Len(m) \/ b > Len(m) THEN <<>>
        ELSE <<SubSeq(m, a, b)>> \o TagsFrom(m, b + 1)

TagsOf(m) == TagsFrom(m, 1)

IsClosingTag(t) == Len(t) >= 2 /\ t[2] = "/"

IsSelfClosingTag(t) == Len(t) >= 3 /\ t[Len(t) - 1] = "/" /\ ~IsClosingTag(t)

IsOpeningTag(t) == ~IsClosingTag(t) /\ ~IsSelfClosingTag(t)

\* the tags that start an element (opening or self-closing), in order
ElementTagsOf(m) == LET NotClosing(t) == ~IsClosingTag(t) IN SelectSeq(TagsOf(m), NotClosing)

StartsWith(sq, pre) == Len(sq) >= Len(pre) /\ SubSeq(sq, 1, Len(pre)) = pre

EndsWith(sq, suf) ==
    Len(sq) >= Len(suf) /\ SubSeq(sq, Len(sq) - Len(suf) + 1, Len(sq)) = suf

Contains(sq, part) ==
    \E i \in 1..(Len(sq) - Len(part) + 1) : SubSeq(sq, i, i + Len(part) - 1) = part

\* the lines of the markup
RECURSIVE LinesFrom(_, _)
LinesFrom(m, i) ==
    LET b == Find(m, "\n", i)
    IN  IF b > Len(m) THEN <<SubSeq(m, i, Len(m))>>
        ELSE <<SubSeq(m, i, b - 1)>> \o LinesFrom(m, b + 1)

LinesOf(m) == LinesFrom(m, 1)

RECURSIVE LeadingSpaces(_)
LeadingSpaces(line) ==
    IF line # <<>> /\ Head(line) = " " THEN 1 + LeadingSpaces(Tail(line)) ELSE 0

Strip(line) == SubSeq(line, LeadingSpaces(line) + 1, Len(line))

\* the record a design system gives a token name: the last one so named
TokenRecordOf(ds, nm) ==
    LET rs == AllTokenRecords(ds)
        at == {i \in 1..Len(rs) : rs[i].name = nm}
    IN  rs[CHOOSE i \in at : \A j \in at : j <= i]

AttributeText(key, val) == <<" ">> \o key \o <<"=", "\"">> \o val \o <<"\"">>

TokenRefProps(node) ==
    {i \in 1..Len(node.props) :
        node.props[i].value.kind = "str" /\ HasSlash(node.props[i].value.s)}

(***************************************************************************)
(* C8 as stated: in the markup of every successfully compiled spec, each   *)
(* prop whose value is a token reference is emitted as an attribute whose  *)
(* value is the `value` field of the referenced token, in place of the     *)
(* reference string.                                                       *)
(***************************************************************************)
C8_TokenReferencesEmittedAsValueField ==
    Compiled =>
        LET ns == PreOrder(call.spec)
            tags == ElementTagsOf(outcome.jsx)
        IN  /\ Len(tags) = Len(ns)
            /\ \A k \in 1..Len(ns) : \A i \in TokenRefProps(ns[k]) :
                  LET r == TokenRecordOf(design_system, ns[k].props[i].value.s)
                  IN  /\ r.has_value
                      /\ Contains(tags[k], AttributeText(ns[k].props[i].key, r.value))

(***************************************************************************)
(* C8 amended: each prop whose value is a token reference is emitted as    *)
(* an attribute of its node's element whose value is the `value` field of  *)
(* the referenced token when the token record has one, and the reference   *)
(* name itself when it has none.                                           *)
(***************************************************************************)
C8_TokenReferencesResolved ==
    Compiled =>
        LET ns == PreOrder(call.spec)
            tags == ElementTagsOf(outcome.jsx)
        IN  /\ Len(tags) = Len(ns)
            /\ \A k \in 1..Len(ns) : \A i \in TokenRefProps(ns[k]) :
                  LET r == TokenRecordOf(design_system, ns[k].props[i].value.s)
                  IN  Contains(tags[k],
                               AttributeText(ns[k].props[i].key,
                                             IF r.has_value THEN r.value
                                             ELSE ns[k].props[i].value.s))

\* primary/500 compiled to its value beside a reference to a token without one
C8_Witness ==
    /\ Compiled
    /\ RenderCalled
    /\ {Primary500, Accent900} \subseteq TokenRefsOf(call.spec)
    /\ Contains(outcome.jsx, AttributeText(<<"c">>, Blue))

(***************************************************************************)
(* C9: the compiler emits a self-closing element exactly when the node has *)
(* neither content nor children; otherwise it emits an opening tag, then   *)
(* the inlined content or the compiled children, then a closing tag of the *)
(* same component type.                                                    *)
(***************************************************************************)
ClosingTag(component_type) == <<"<", "/">> \o component_type \o <<">">>

C9_SelfClosingIffEmpty ==
    Compiled =>
        LET m == outcome.jsx
            s == call.spec
            tags == TagsOf(m)
            first == Find(m, ">", 1)
            last == Len(m) - Len(ClosingTag(s.type)) + 1
            between == SubSeq(m, first + 1, last - 1)
        IN  /\ tags # <<>>
            /\ StartsWith(tags[1], <<"<">> \o s.type \o <<" ">>)
            /\ (Len(tags) = 1 /\ IsSelfClosingTag(tags[1]))
                  <=> (s.content = <<>> /\ s.children = <<>>)
            /\ IsSelfClosingTag(tags[1]) => EndsWith(m, tags[1])
            /\ ~IsSelfClosingTag(tags[1]) =>
                  /\ IsOpeningTag(tags[1])
                  /\ EndsWith(m, ClosingTag(s.type))
                  /\ first < last
                  /\ IF s.children = <<>> THEN between = s.content
                     ELSE Len(ElementTagsOf(between)) = Len(PreOrder(s)) - 1

\* a node with content and no children, compiled to <T ...>content</T>
C9_Witness ==
    /\ Compiled
    /\ call.spec.children = <<>>
    /\ call.spec.content = Go
    /\ EndsWith(outcome.jsx, Go \o ClosingTag(call.spec.type))

(***************************************************************************)
(* C10: a node with children, compiled at depth d, gives the opening tag   *)
(* indented for depth d, then the markup of each child in the children's   *)
(* order, each compiled at depth d + 1 and newline-joined, then the        *)
(* closing tag indented for depth d; a line is indented by two spaces per  *)
(* level, and the starting depth changes leading whitespace only.          *)
(***************************************************************************)
\* the depth of the node each line of the markup belongs to
RECURSIVE LineDepths(_, _)
RECURSIVE LineDepthsAll(_, _)
LineDepths(node, d) ==
    IF node.children = <<>> THEN <<d>>
    ELSE <<d>> \o LineDepthsAll(node.children, d + 1) \o <<d>>

LineDepthsAll(children, d) ==
    IF children = <<>> THEN <<>>
    ELSE LineDepths(Head(children), d) \o LineDepthsAll(Tail(children), d)

RECURSIVE ChildrenLines(_, _, _, _)
ChildrenLines(ts, cs, children, d) ==
    IF children = <<>> THEN <<>>
    ELSE LinesOf(SpecificationToJsx(ts, cs, Head(children), d).val)
         \o ChildrenLines(ts, cs, Tail(children), d)

C10_ChildrenIndentedInOrder ==
    (Compiled /\ call.spec.children # <<>>) =>
        LET s == call.spec
            d == call.depth
            ls == LinesOf(outcome.jsx)
            n == Len(ls)
            depths == LineDepths(s, d)
            flat == LinesOf(SpecificationToJsx(tokens, components, s, 0).val)
        IN  /\ n >= 3
            /\ LeadingSpaces(ls[1]) = 2 * d
            /\ StartsWith(Strip(ls[1]), <<"<">> \o s.type \o <<" ">>)
            /\ IsOpeningTag(Strip(ls[1]))
            /\ ls[n] = Repeat(<<" ">>, 2 * d) \o ClosingTag(s.type)
            /\ SubSeq(ls, 2, n - 1) = ChildrenLines(tokens, components, s.children, d + 1)
            /\ Len(depths) = n
            /\ \A k \in 1..n : LeadingSpaces(ls[k]) = 2 * depths[k]
            /\ Len(flat) = n
            /\ \A k \in 1..n : Strip(ls[k]) = Strip(flat[k])

\* two different children below a node compiled at a starting depth above 0
C10_Witness ==
    /\ Compiled
    /\ call.depth >= 1
    /\ Len(call.spec.children) = 2
    /\ call.spec.children[1].type # call.spec.children[2].type
    /\ Len(LinesOf(outcome.jsx)) = 4

\* the compiler alone: a renderer and a tree, compiled or rendered once
NextCompile == JsxCall \/ RenderCall

SpecCompile == Init /\ [][NextCompile]_vars

(***************************************************************************)
(* C11 as stated: every prop with a literal (non-token-reference) value    *)
(* passes through: the attributes of its node's element contain that key   *)
(* with that literal value.                                                *)
(***************************************************************************)
LiteralProps(node) == (1..Len(node.props)) \ TokenRefProps(node)

\* the words of a tag: its text between "<" and ">" split at the spaces
RECURSIVE WordsFrom(_, _)
WordsFrom(t, i) ==
    LET b == Find(t, " ", i)
    IN  IF b > Len(t) THEN <<SubSeq(t, i, Len(t))>>
        ELSE <<SubSeq(t, i, b - 1)>> \o WordsFrom(t, b + 1)

WordsOfTag(t) == Range(WordsFrom(SubSeq(t, 2, Len(t) - 1), 1))

\* the tag has an attribute of that key, with or without a value
HasAttribute(t, key) ==
    \E w \in WordsOfTag(t) : w = key \/ StartsWith(w, key \o <<"=">>)

\* the text a literal value is emitted as
LiteralText(key, value) ==
    CASE value.kind = "str" -> key \o <<"=", "\"">> \o value.s \o <<"\"">>
      [] value.kind = "int" -> key \o <<"=">> \o FormatInt(value.n)
      [] value.kind = "bool" /\ value.b -> key
      [] OTHER -> key \o <<"=">>

C11_LiteralPropsPassThrough ==
    Compiled =>
        LET ns == PreOrder(call.spec)
            tags == ElementTagsOf(outcome.jsx)
        IN  /\ Len(tags) = Len(ns)
            /\ \A k \in 1..Len(ns) : \A i \in LiteralProps(ns[k]) :
                  HasAttribute(tags[k], ns[k].props[i].key)

(***************************************************************************)
(* C11 amended: a literal prop that is a string is emitted as key="value", *)
(* a number as key=value and a true boolean as the bare key; a false       *)
(* boolean and a value of any other type (None, a list, a dict) are left   *)
(* out of the element.                                                     *)
(***************************************************************************)
IsEmittedLiteral(value) ==
    value.kind \in {"str", "int"} \/ (value.kind = "bool" /\ value.b)

C11_LiteralPropsEmittedOrDropped ==
    Compiled =>
        LET ns == PreOrder(call.spec)
            tags == ElementTagsOf(outcome.jsx)
        IN  /\ Len(tags) = Len(ns)
            /\ \A k \in 1..Len(ns) : \A i \in LiteralProps(ns[k]) :
                  LET pr == ns[k].props[i]
                  IN  IF IsEmittedLiteral(pr.value)
                      THEN LiteralText(pr.key, pr.value) \in WordsOfTag(tags[k])
                      ELSE ~HasAttribute(tags[k], pr.key)

\* a string, a number, a true and a false boolean and a None in one element
C11_Witness ==
    /\ Compiled
    /\ \E i, j \in LiteralProps(call.spec) :
          /\ call.spec.props[i].value = BoolV(FALSE)
          /\ call.spec.props[j].value = IntV(8)
    /\ \E n \in NodesOf(call.spec) : \E i \in LiteralProps(n) : n.props[i].value = StrV(Red)
    /\ Contains(outcome.jsx, <<" ", "n", "=", "8">>)

(***************************************************************************)
(* C12 as stated: the markup compiler does not re-validate:                *)
(* specification_to_jsx checks neither components nor tokens and raises no *)
(* validation error.                                                       *)
(***************************************************************************)
C12_CompilerRaisesNothing ==
    JsxCalled => outcome.status = "returned"

(***************************************************************************)
(* C12 amended: specification_to_jsx checks on its own, at every node, that*)
(* the type is in the component index and, through _resolve_token, that    *)
(* every token reference is in the token index; it raises for exactly the  *)
(* specs validate rejects, with the same first violation in pre-order.     *)
(***************************************************************************)
C12_CompilerChecksByItself ==
    JsxCalled =>
        IF UsesOnlyDesignSystem(design_system, call.spec)
        THEN outcome.status = "returned"
        ELSE /\ outcome.status = "raised"
             /\ Check(outcome.err.kind, outcome.err.name)
                    = FirstFailingCheck(design_system, call.spec)
             /\ outcome.err.raisedBy
                    = (IF outcome.err.kind = "UnknownComponent"
                       THEN "specification_to_jsx" ELSE "_resolve_token")
             /\ ValidateSpecification(tokens, components, call.spec).err.kind
                    = outcome.err.kind
             /\ ValidateSpecification(tokens, components, call.spec).err.name
                    = outcome.err.name

\* the compiler, called without validation, rejected an unknown token of a child
C12_Witness ==
    /\ JsxCalled
    /\ outcome.status = "raised"
    /\ outcome.err.kind = "UnknownToken"
    /\ outcome.err.raisedBy = "_resolve_token"
    /\ outcome.err.name \notin TokenRefsOfNode(call.spec)
    /\ \E t \in TypesOf(call.spec) : t \notin ComponentNames(design_system)

(***************************************************************************)
(* C13: validate, compile and the two extract operations are side-effect   *)
(* free: across any such call, returning or raising, the bound design      *)
(* system, the token index, the component index and the input spec tree    *)
(* are unchanged.                                                          *)
(***************************************************************************)
PureOperations ==
    {"validate_specification", "specification_to_jsx",
     "extract_tokens_from_spec", "extract_components_from_spec"}

C13_CallsAreSideEffectFree ==
    [][(call = NoCall /\ call'.op \in PureOperations) =>
           /\ design_system' = design_system
           /\ tokens' = tokens
           /\ components' = components
           /\ spec' = spec
           /\ call'.spec = spec]_vars

\* a call that raised on a reused renderer left the tree and the indexes alone
C13_Witness ==
    /\ call.op \in PureOperations
    /\ outcome.status = "raised"
    /\ reused
    /\ spec = call.spec
    /\ spec.children # <<>>
    /\ tokens = IndexTokens(design_system)
    /\ components = IndexComponents(design_system)

(***************************************************************************)
(* Index build on design systems that repeat names: UniversalRenderer is   *)
(* constructed anew for every request, on whatever the store holds.        *)
(***************************************************************************)
MaxRecords == 2

RECURSIVE SeqsUpTo(_, _)
SeqsUpTo(S, n) ==
    IF n = 0 THEN {<<>>}
    ELSE LET shorter == SeqsUpTo(S, n - 1)
         IN  shorter \cup {Append(q, x) : q \in shorter, x \in S}

ColorPool ==
    {Token(Primary500, TRUE, Blue), Token(Primary500, TRUE, Red),
     Token(Accent900, TRUE, Blue)}

TypographyPool == {Token(Primary500, FALSE, <<>>)}

ComponentPool ==
    {ComponentNode("1:1", Button), ComponentNode("1:2", Button),
     ComponentNode("1:3", Text)}

SpacingPool == {Token(Primary500, TRUE, Red)}

RepeatingDesignSystems ==
    {[tokens |-> [colors |-> c, typography |-> t, spacing |-> sp], components |-> cl] :
        c \in SeqsUpTo(ColorPool, MaxRecords),
        t \in SeqsUpTo(TypographyPool, MaxRecords),
        sp \in SeqsUpTo(SpacingPool, 1),
        cl \in SeqsUpTo(ComponentPool, MaxRecords)}

\* the stored design system as it is, or after one more extracted record
Extracted(ds) ==
    {ds}
    \cup {[ds EXCEPT !.tokens.colors = Append(@, r)] :
             r \in {x \in ColorPool : Len(ds.tokens.colors) < MaxRecords}}
    \cup {[ds EXCEPT !.components = Append(@, r)] :
             r \in {x \in ComponentPool : Len(ds.components) < MaxRecords}}

\* UniversalRenderer(design_system): __init__ builds both indexes
Construct ==
    /\ \E ds \in Extracted(design_system) :
          /\ design_system' = ds
          /\ tokens' = IndexTokens(ds)
          /\ components' = IndexComponents(ds)
    /\ call' = NoCall
    /\ outcome' = NoOutcome
    /\ reused' = FALSE
    /\ UNCHANGED spec
    /\ UNCHANGED others

InitIndex ==
    /\ design_system \in RepeatingDesignSystems
    /\ tokens = IndexTokens(design_system)
    /\ components = IndexComponents(design_system)
    /\ spec \in Trees(1)
    /\ call = NoCall
    /\ outcome = NoOutcome
    /\ reused = FALSE
    /\ walk = NoWalk
    /\ service = NoService
    /\ sandbox = MountedSandbox
    /\ app = MountedApp

NextIndex == Construct \/ ValidateCall \/ JsxCall

SpecIndex == InitIndex /\ [][NextIndex]_vars

\* the last record of a sequence that carries the name
LastNamed(records, nm) ==
    LET at == {i \in 1..Len(records) : records[i].name = nm}
    IN  records[CHOOSE i \in at : \A j \in at : j <= i]

HasRepeatedName(records) ==
    \E i, j \in 1..Len(records) :
        i < j /\ records[i].name = records[j].name /\ records[i] # records[j]

(***************************************************************************)
(* C14: the index build maps every token name and every component name of  *)
(* the design system to a record with that name; for a name that occurs    *)
(* more than once the index holds the record that occurs last (tokens in   *)
(* the order colors, typography, spacing); the build always yields an      *)
(* index.                                                                  *)
(***************************************************************************)
C14_IndexHoldsLastRecord ==
    /\ DOMAIN tokens = TokenNames(design_system)
    /\ \A nm \in DOMAIN tokens :
          /\ tokens[nm].name = nm
          /\ tokens[nm] = LastNamed(AllTokenRecords(design_system), nm)
    /\ DOMAIN components = ComponentNames(design_system)
    /\ \A nm \in DOMAIN components :
          /\ components[nm].name = nm
          /\ components[nm] = LastNamed(design_system.components, nm)

\* a colour named twice, a component named twice, and the compiler reading
\* the later colour
C14_Witness ==
    /\ HasRepeatedName(design_system.tokens.colors)
    /\ HasRepeatedName(design_system.components)
    /\ design_system.tokens.typography = <<>>
    /\ design_system.tokens.colors[1] = Token(Primary500, TRUE, Blue)
    /\ JsxCalled
    /\ outcome.status = "returned"
    /\ Contains(outcome.jsx, <<"c", "=", "\"">> \o Red \o <<"\"">>)

(***************************************************************************)
(* The recursion of validate_node and specification_to_jsx, one step at a  *)
(* time: a stack of frames, the top one running.  A frame checks its node  *)
(* (type, then props), loops over the children calling itself on each,     *)
(* and returns; an exception unwinds the whole stack.                      *)
(***************************************************************************)
RECURSIVE NodeAt(_, _)
NodeAt(s, path) ==
    IF path = <<>> THEN s ELSE NodeAt(s.children[Head(path)], Tail(path))

\* the checks a frame makes on its own node before it loops over the children
NodeError(pass, ts, cs, node) ==
    IF ~ComponentExists(cs, node.type)
    THEN Error("UnknownComponent", node.type,
               IF pass = "validate" THEN "validate_node" ELSE "specification_to_jsx")
    ELSE IF pass = "validate" THEN ValidateProps(ts, node.props, 1)
         ELSE LET p == ResolveProps(ts, node.props)
              IN  IF p.ok THEN NoError ELSE p.err

Top == walk.stack[Len(walk.stack)]

Running == walk.status = "running"

WalkStart ==
    /\ ~Running
    /\ \E pass \in {"validate", "compile"} :
          walk' = [pass |-> pass, status |-> "running", stack |-> <<Frame(<<>>, 0)>>,
                   visited |-> <<>>, err |-> NoError]
    /\ UNCHANGED renderer
    /\ UNCHANGED beside_walk

\* the frame's node passes its checks
WalkVisit ==
    /\ Running /\ Top.next = 0
    /\ NodeError(walk.pass, tokens, components, NodeAt(spec, Top.path)) = NoError
    /\ walk' = [walk EXCEPT !.stack[Len(walk.stack)].next = 1,
                            !.visited = Append(@, Top.path)]
    /\ UNCHANGED renderer
    /\ UNCHANGED beside_walk

\* the frame's node fails a check: the ValueError leaves every frame
WalkRaise ==
    /\ Running /\ Top.next = 0
    /\ LET e == NodeError(walk.pass, tokens, components, NodeAt(spec, Top.path))
       IN  /\ e # NoError
           /\ walk' = [walk EXCEPT !.status = "raised", !.stack = <<>>, !.err = e,
                                   !.visited = Append(@, Top.path)]
    /\ UNCHANGED renderer
    /\ UNCHANGED beside_walk

\* variant: the loop calls itself on every child twice
WalkDescendTwice ==
    /\ Running /\ Top.next >= 1
    /\ Top.next <= Len(NodeAt(spec, Top.path).children)
    /\ LET child == Append(Top.path, Top.next)
       IN  walk' = [walk EXCEPT
                      !.stack = Append([@ EXCEPT ![Len(@)].next =
                                           IF child \in Range(walk.visited)
                                           THEN Top.next + 1 ELSE Top.next],
                                       Frame(child, 0))]
    /\ UNCHANGED renderer
    /\ UNCHANGED beside_walk

\* the loop over the children calls the function on the next child
WalkDescend ==
    /\ Running /\ Top.next >= 1
    /\ Top.next <= Len(NodeAt(spec, Top.path).children)
    /\ walk' = [walk EXCEPT
                  !.stack = Append([@ EXCEPT ![Len(@)].next = Top.next + 1],
                                   Frame(Append(Top.path, Top.next), 0))]
    /\ UNCHANGED renderer
    /\ UNCHANGED beside_walk

\* the loop is over (at once in a node without children): the frame returns
WalkReturn ==
    /\ Running /\ Top.next >= 1
    /\ Top.next > Len(NodeAt(spec, Top.path).children)
    /\ walk' = [walk EXCEPT !.stack = SubSeq(@, 1, Len(@) - 1),
                            !.status = IF Len(walk.stack) = 1 THEN "returned" ELSE @]
    /\ UNCHANGED renderer
    /\ UNCHANGED beside_walk

WalkStep == WalkVisit \/ WalkRaise \/ WalkDescend \/ WalkReturn

WalkDesignSystems ==
    {ds \in DesignSystems : ds.tokens.typography = <<>>}

InitWalk ==
    /\ design_system \in WalkDesignSystems
    /\ tokens = IndexTokens(design_system)
    /\ components = IndexComponents(design_system)
    /\ spec \in Specs
    /\ call = NoCall
    /\ outcome = NoOutcome
    /\ reused = FALSE
    /\ walk = NoWalk
    /\ service = NoService
    /\ sandbox = MountedSandbox
    /\ app = MountedApp

NextWalk == WalkStart \/ WalkVisit \/ WalkRaise \/ WalkDescend \/ WalkReturn

\* Python runs the call to its end: a running frame takes its next step
SpecWalk == InitWalk /\ [][NextWalk]_vars /\ WF_vars(WalkStep)

\* the paths of the nodes of a tree, in pre-order
RECURSIVE PathsFrom(_, _)
RECURSIVE PathsOfChildren(_, _, _)
PathsOfChildren(node, path, i) ==
    IF i > Len(node.children) THEN <<>>
    ELSE PathsFrom(node.children[i], Append(path, i))
         \o PathsOfChildren(node, path, i + 1)

PathsFrom(node, path) == <<path>> \o PathsOfChildren(node, path, 1)

PathsOf(s) == PathsFrom(s, <<>>)

IsPrefix(a, b) == Len(a) <= Len(b) /\ SubSeq(b, 1, Len(a)) = a

\* each node entered at most once, in pre-order
VisitsEachNodeOnce ==
    /\ NoDuplicates(walk.visited)
    /\ IsPrefix(walk.visited, PathsOf(spec))

\* the stack is a chain from the root; only the top frame may be at a leaf,
\* and a frame at a leaf never calls further
RecursionEndsAtLeaves ==
    \A k \in 1..Len(walk.stack) :
        /\ Len(walk.stack[k].path) = k - 1
        /\ walk.stack[k].path \in Range(PathsOf(spec))
        /\ k < Len(walk.stack) =>
              /\ NodeAt(spec, walk.stack[k].path).children # <<>>
              /\ IsPrefix(walk.stack[k].path, walk.stack[k + 1].path)
        /\ walk.stack[k].next <= Len(NodeAt(spec, walk.stack[k].path).children) + 1

\* the pass ended as the recursive function does
EndsAsTheFunction ==
    /\ walk.status = "returned" =>
          /\ walk.visited = PathsOf(spec)
          /\ IF walk.pass = "validate"
             THEN ValidateSpecification(tokens, components, spec).ok
             ELSE SpecificationToJsx(tokens, components, spec, 0).ok
    /\ walk.status = "raised" =>
          walk.err = IF walk.pass = "validate"
                     THEN ValidateSpecification(tokens, components, spec).err
                     ELSE SpecificationToJsx(tokens, components, spec, 0).err

(***************************************************************************)
(* C15: every validate and every compile pass over a finite specification  *)
(* tree terminates, having visited each node at most once, the recursion   *)
(* ending at the nodes without children.                                   *)
(***************************************************************************)
C15_PassTerminatesVisitingOnce ==
    /\ [](VisitsEachNodeOnce /\ RecursionEndsAtLeaves /\ EndsAsTheFunction)
    /\ (Running ~> (walk.status \in {"returned", "raised"} /\ walk.stack = <<>>))

\* a compile pass over a tree with a grandchild has returned
C15_Witness ==
    /\ walk.pass = "compile"
    /\ walk.status = "returned"
    /\ Len(walk.visited) = MaxNodes
    /\ <<1, 1>> \in Range(walk.visited)

(***************************************************************************)
(* The generation service: POST /api/sandbox/generate builds a             *)
(* SandboxAgent on the stored design system, asks the model for a          *)
(* specification, validates and renders it, stores a GeneratedScreen and   *)
(* answers; any exception on the way is answered as an error.              *)
(***************************************************************************)
MaxScreens == 2

\* what the language model may answer: text that is no JSON, or a tree
LlmAnswer(json, s) == [json |-> json, spec |-> s]

GeneratedSpecs ==
    { Node(Button, <<>>, Go, <<>>),
      Node(Button, <<Prop(<<"c">>, StrV(Primary500))>>, <<>>,
           <<Node(Text, <<>>, Go, <<>>)>>),
      Node(Text, <<>>, <<>>,
           <<Node(Button, <<>>, Go, <<>>),
             Node(Button, <<Prop(<<"c">>, StrV(Accent900))>>, <<>>, <<>>)>>),
      Node(<<"C">>, <<Prop(<<"c">>, StrV(Primary500))>>, <<>>, <<>>) }

LlmAnswers ==
    {LlmAnswer(FALSE, Node(<<>>, <<>>, <<>>, <<>>))}
    \cup {LlmAnswer(TRUE, s) : s \in GeneratedSpecs}

Prompts == {<<>>, <<"a">>}

NoId == <<>>
StoredId == <<"1">>
DesignSystemIds == {NoId, StoredId, <<"9">>}

\* variant: the agent returns what the model answered without validating it
GenerateScreenTrustingLlm(ts, cs, llm) ==
    {Ok(Returned(<<>>, <<>>, <<>>, FALSE))}

\* SandboxAgent.generate_screen past the model's answer: every result it may
\* return, or the exception it raises
GenerateScreen(ts, cs, llm) ==
    IF ~llm.json THEN {Raise(Error("JSONDecodeError", <<>>, "json.loads"))}
    ELSE LET v == ValidateSpecification(ts, cs, llm.spec)
         IN  IF ~v.ok THEN {Raise(v.err)}
             ELSE {IF r.status = "raised" THEN Raise(r.err) ELSE Ok(r) :
                       r \in RenderDesignSpecification(ts, cs, llm.spec)}

GeneratedScreen(id, design_system_id, prompt, design_spec, code, tu, cu) ==
    [id |-> id, design_system_id |-> design_system_id, prompt |-> prompt,
     design_spec |-> design_spec, code |-> code, tokens_used |-> tu,
     components_used |-> cu]

\* except Exception: return {"status": "error", "message": str(e)}
ErrorResponse(e) ==
    [NoResponse EXCEPT !.http = 200, !.status = "error", !.message = e]

SuccessResponse(screen) ==
    [NoResponse EXCEPT !.http = 200, !.status = "success", !.screen_id = screen.id,
                       !.design = screen.design_spec, !.code = screen.code,
                       !.tokens_used = screen.tokens_used,
                       !.components_used = screen.components_used]

HTTPException(status_code) ==
    Error("HTTPException", status_code, "generate_from_prompt")

GenerateFromPrompt ==
    /\ Len(service.generated_screens) < MaxScreens
    /\ \E prompt \in Prompts, design_system_id \in DesignSystemIds, llm \in LlmAnswers :
          IF prompt = <<>> \/ design_system_id = NoId
          THEN service' = [service EXCEPT
                              !.request_body = RequestBody(prompt, design_system_id),
                              !.response = ErrorResponse(HTTPException(<<"4", "0", "0">>))]
          ELSE IF design_system_id # StoredId
          THEN service' = [service EXCEPT
                              !.request_body = RequestBody(prompt, design_system_id),
                              !.response = ErrorResponse(HTTPException(<<"4", "0", "4">>))]
          ELSE \E result \in GenerateScreen(IndexTokens(design_system),
                                            IndexComponents(design_system), llm) :
                  IF ~result.ok
                  THEN service' = [service EXCEPT !.llm = llm,
                                      !.request_body = RequestBody(prompt, design_system_id),
                                      !.response = ErrorResponse(result.err)]
                  ELSE LET screen ==
                               GeneratedScreen(Len(service.generated_screens) + 1,
                                   design_system_id, prompt, llm.spec, result.val.jsx,
                                   result.val.tokens_used, result.val.components_used)
                       IN  service' = [generated_screens |->
                                           Append(service.generated_screens, screen),
                                       llm |-> llm,
                                       request_body |->
                                           RequestBody(prompt, design_system_id),
                                       response |-> SuccessResponse(screen)]
    /\ UNCHANGED renderer
    /\ UNCHANGED beside_service

InitService ==
    /\ design_system \in DesignSystems
    /\ tokens = IndexTokens(design_system)
    /\ components = IndexComponents(design_system)
    /\ spec = Node(Button, <<>>, <<>>, <<>>)
    /\ call = NoCall
    /\ outcome = NoOutcome
    /\ reused = FALSE
    /\ walk = NoWalk
    /\ service = NoService
    /\ sandbox = MountedSandbox
    /\ app = MountedApp

NextService == GenerateFromPrompt

SpecService == InitService /\ [][NextService]_vars

(***************************************************************************)
(* C16: the generation service validates every generated specification     *)
(* before it trusts or stores it: every stored GeneratedScreen holds a     *)
(* specification that uses only the design system, and a success response  *)
(* is given only for such a specification, the one just stored.            *)
(***************************************************************************)
C16_OnlyValidatedSpecsStored ==
    /\ \A i \in 1..Len(service.generated_screens) :
          LET screen == service.generated_screens[i]
          IN  /\ UsesOnlyDesignSystem(design_system, screen.design_spec)
              /\ ValidateSpecification(tokens, components, screen.design_spec).ok
              /\ screen.id = i
    /\ service.response.status = "success" =>
          /\ service.llm.json
          /\ UsesOnlyDesignSystem(design_system, service.llm.spec)
          /\ service.response.design = service.llm.spec
          /\ service.response.screen_id = Len(service.generated_screens)
          /\ service.generated_screens[service.response.screen_id].design_spec
                 = service.llm.spec
    /\ (service.response.status = "error"
            /\ service.response.message.kind \in {"UnknownComponent", "UnknownToken"}) =>
          /\ ~UsesOnlyDesignSystem(design_system, service.llm.spec)
          /\ \A i \in 1..Len(service.generated_screens) :
                service.generated_screens[i].design_spec # service.llm.spec

\* after one screen was stored, a generated tree with an undeclared token in
\* a child was answered with an error and not stored
C16_Witness ==
    /\ Len(service.generated_screens) = 1
    /\ service.response.status = "error"
    /\ service.response.message.kind = "UnknownToken"
    /\ service.llm.json
    /\ service.llm.spec.type \in ComponentNames(design_system)
    /\ ~UsesOnlyDesignSystem(design_system, service.llm.spec)

(***************************************************************************)
(* The dashboard's Sandbox component: the prompt input, handleGenerate     *)
(* (button click or Enter key) and the settling of each fetch.             *)
(***************************************************************************)
MaxRequests == 2

WhiteSpace == {" ", "\t", "\n"}

PromptTexts == {<<>>, <<"a">>, <<" ", "a">>, <<"\t", " ">>}

RECURSIVE TrimStart(_)
TrimStart(s) ==
    IF s # <<>> /\ Head(s) \in WhiteSpace THEN TrimStart(Tail(s)) ELSE s

RECURSIVE TrimEnd(_)
TrimEnd(s) ==
    IF s # <<>> /\ s[Len(s)] \in WhiteSpace THEN TrimEnd(SubSeq(s, 1, Len(s) - 1))
    ELSE s

\* variant: trim gives the string back as it is
TrimNothing(s) == s

\* String.prototype.trim
Trim(s) == TrimEnd(TrimStart(s))

\* a || b on strings: the empty (or missing) string gives way to b
Or(a, b) == IF a = "" THEN b ELSE a

\* how a fetch may settle: it rejects, or resolves to a response that is ok
\* or not, whose body parses as JSON or not, the JSON being null, an object
\* with status 'error', with status 'success', or another object; `text` is
\* the rejection's message, the body's detail or the body's message
FetchOutcome(throws, ok, json, body, text) ==
    [throws |-> throws, ok |-> ok, json |-> json, body |-> body, text |-> text]

FetchOutcomes ==
    {FetchOutcome(TRUE, FALSE, FALSE, "none", t) : t \in {"", "Failed to fetch"}}
    \cup {FetchOutcome(FALSE, ok, FALSE, "none", "") : ok \in BOOLEAN}
    \cup {FetchOutcome(FALSE, FALSE, TRUE, "other", "d")}
    \cup {FetchOutcome(FALSE, TRUE, TRUE, "null", "")}
    \cup {FetchOutcome(FALSE, TRUE, TRUE, "error", t) : t \in {"", "m"}}
    \cup {FetchOutcome(FALSE, TRUE, TRUE, "success", "")}

\* the message of the Error thrown inside the try block, Null when none is
Thrown(o) ==
    CASE o.throws -> Value(o.text)
      [] ~o.throws /\ o.json /\ o.body = "null" -> Value("TypeError")
      [] ~o.throws /\ ~o.ok /\ ~o.json -> Value("Failed to generate design")
      [] ~o.throws /\ ~o.ok /\ o.json /\ o.body # "null" ->
             Value(Or(o.text, "Failed to generate design"))
      [] ~o.throws /\ o.ok /\ ~o.json -> Value("SyntaxError")
      [] ~o.throws /\ o.ok /\ o.json /\ o.body = "error" ->
             Value(Or(o.text, "Backend service reported an error"))
      [] OTHER -> Null

Event(type, request, o) == [type |-> type, request |-> request, outcome |-> o]

\* onChange of the input
SetPrompt ==
    /\ \E p \in PromptTexts :
          sandbox' = [sandbox EXCEPT !.prompt = p,
                                     !.event = Event("change", 0, NoOutcomeOfFetch)]
    /\ UNCHANGED beside_sandbox

\* variant: the previous result stays on screen while the request runs
HandleGenerateKeepingResult(via) ==
    /\ IF Trim(sandbox.prompt) = <<>>
       THEN sandbox' = [sandbox EXCEPT !.event = Event(via, 0, NoOutcomeOfFetch)]
       ELSE /\ Len(sandbox.requests) < MaxRequests
            /\ sandbox' = [sandbox EXCEPT
                  !.loading = TRUE,
                  !.error = Null,
                  !.requests = Append(@, [prompt |-> sandbox.prompt, settled |-> FALSE]),
                  !.event = Event(via, Len(sandbox.requests) + 1, NoOutcomeOfFetch)]
    /\ UNCHANGED beside_sandbox

\* handleGenerate up to its await of the fetch
HandleGenerate(via) ==
    /\ IF Trim(sandbox.prompt) = <<>>
       THEN sandbox' = [sandbox EXCEPT !.event = Event(via, 0, NoOutcomeOfFetch)]
       ELSE /\ Len(sandbox.requests) < MaxRequests
            /\ sandbox' = [sandbox EXCEPT
                  !.loading = TRUE,
                  !.error = Null,
                  !.result = NullData,
                  !.requests = Append(@, [prompt |-> sandbox.prompt, settled |-> FALSE]),
                  !.event = Event(via, Len(sandbox.requests) + 1, NoOutcomeOfFetch)]
    /\ UNCHANGED beside_sandbox

\* onKeyDown of the input: Enter
PressEnter == HandleGenerate("enter")

\* onClick of the button, which is disabled while loading or without a prompt
ClickGenerate ==
    /\ ~sandbox.loading
    /\ Trim(sandbox.prompt) # <<>>
    /\ HandleGenerate("click")

\* the fetch of request r settles: the rest of try, catch and finally
Settle(r) ==
    /\ r \in 1..Len(sandbox.requests)
    /\ ~sandbox.requests[r].settled
    /\ \E o \in FetchOutcomes :
          sandbox' = [sandbox EXCEPT
              !.requests[r].settled = TRUE,
              !.result = IF Thrown(o) = Null THEN Data(r, o.body) ELSE @,
              !.error = IF Thrown(o) = Null THEN @
                        ELSE Value(Or(Thrown(o).value, "An unknown error occurred")),
              !.loading = FALSE,
              !.event = Event("settled", r, o)]
    /\ UNCHANGED beside_sandbox

\* the design system the backend serves while the dashboard runs
ServedDesignSystem ==
    [tokens |-> [colors |-> <<Token(Primary500, TRUE, Blue)>>, typography |-> <<>>,
                 spacing |-> <<>>],
     components |-> <<Component(Button)>>]

InitSandbox ==
    /\ design_system = ServedDesignSystem
    /\ tokens = IndexTokens(design_system)
    /\ components = IndexComponents(design_system)
    /\ spec = Node(Button, <<>>, <<>>, <<>>)
    /\ call = NoCall
    /\ outcome = NoOutcome
    /\ reused = FALSE
    /\ walk = NoWalk
    /\ service = NoService
    /\ sandbox = MountedSandbox
    /\ app = MountedApp

NextSandbox ==
    SetPrompt \/ PressEnter \/ ClickGenerate \/ \E r \in 1..MaxRequests : Settle(r)

\* every fetch settles: it resolves or rejects
SpecSandbox ==
    InitSandbox /\ [][NextSandbox]_vars /\ \A r \in 1..MaxRequests : WF_vars(Settle(r))

\* the response is not ok, its body has status 'error', or the fetch threw
AttemptFails(o) == o.throws \/ ~o.ok \/ (o.json /\ o.body = "error")

Settled == sandbox.event.type = "settled"

(***************************************************************************)
(* C17 as stated: a generate attempt ends with an error and no result      *)
(* whenever the response is not ok, the body has status 'error' or the     *)
(* fetch throws; result is set only for an ok response whose body does not *)
(* have status 'error'.                                                    *)
(***************************************************************************)
C17_FailedAttemptEndsWithErrorAndNoResult ==
    /\ (Settled /\ AttemptFails(sandbox.event.outcome)) =>
          /\ sandbox.error # Null
          /\ sandbox.result = NullData
    /\ (Settled /\ sandbox.result = Data(sandbox.event.request, sandbox.event.outcome.body)) =>
          ~AttemptFails(sandbox.event.outcome)

InFlight(r) == r \in 1..Len(sandbox.requests) /\ ~sandbox.requests[r].settled

HasSettled(r) == r \in 1..Len(sandbox.requests) /\ sandbox.requests[r].settled

(***************************************************************************)
(* C18: starting a generate request sets loading to true and clears the    *)
(* previous error and the previous result as the request is sent, and      *)
(* every started request, however it ends, eventually sets loading back to *)
(* false.                                                                  *)
(***************************************************************************)
C18_LoadingSetOnStartClearedOnSettle ==
    /\ [][Len(sandbox'.requests) > Len(sandbox.requests) =>
              /\ sandbox'.loading
              /\ sandbox'.error = Null
              /\ sandbox'.result = NullData
              /\ Len(sandbox'.requests) = Len(sandbox.requests) + 1
              /\ ~sandbox'.requests[Len(sandbox'.requests)].settled
              /\ sandbox'.requests[Len(sandbox'.requests)].prompt = sandbox.prompt]_vars
    /\ [][\A r \in 1..MaxRequests :
              (InFlight(r) /\ HasSettled(r)') => ~sandbox'.loading]_vars
    /\ \A r \in 1..MaxRequests : InFlight(r) ~> HasSettled(r)

\* a second request, started after the first one failed, has cleared the error
C18_Witness ==
    /\ Len(sandbox.requests) = 2
    /\ HasSettled(1)
    /\ InFlight(2)
    /\ sandbox.event.type \in {"enter", "click"}
    /\ sandbox.loading
    /\ sandbox.error = Null
    /\ sandbox.result = NullData

\* empty, or white space only
IsBlank(s) == \A i \in 1..Len(s) : s[i] \in WhiteSpace

(***************************************************************************)
(* C19: handleGenerate with an empty or whitespace-only prompt sends no    *)
(* request and leaves loading, error and result unchanged.                 *)
(***************************************************************************)
C19_BlankPromptDoesNothing ==
    [][(sandbox'.event.type \in {"enter", "click"} /\ IsBlank(sandbox.prompt)) =>
           /\ sandbox'.requests = sandbox.requests
           /\ sandbox'.loading = sandbox.loading
           /\ sandbox'.error = sandbox.error
           /\ sandbox'.result = sandbox.result
           /\ sandbox'.event.request = 0]_vars

\* Enter on a whitespace-only prompt left a request in flight and an earlier
\* error as they were
C19_Witness ==
    /\ sandbox.event.type = "enter"
    /\ sandbox.event.request = 0
    /\ sandbox.prompt = <<"\t", " ">>
    /\ InFlight(2)
    /\ sandbox.error # Null

(***************************************************************************)
(* App and its useDesignSystem hook: one fetch of the latest design        *)
(* system from an effect that runs once after mount, and the screen App    *)
(* renders from the hook's state and its own activeTab.                    *)
(***************************************************************************)
\* what GET /api/design-system/latest may bring: a rejection (backend down),
\* a response that is not ok, a body that is no JSON, the latest design
\* system, or the endpoint's {status: 'error'} object
LatestOutcomes ==
    {FetchOutcome(TRUE, FALSE, FALSE, "none", "Failed to fetch"),
     FetchOutcome(FALSE, FALSE, TRUE, "other", "d"),
     FetchOutcome(FALSE, TRUE, FALSE, "none", ""),
     FetchOutcome(FALSE, TRUE, TRUE, "error", "m"),
     FetchOutcome(FALSE, TRUE, TRUE, "success", "")}

LatestBody(o, ds) ==
    IF o.body = "error" THEN Body("error", NoTokens, <<>>)
    ELSE Body("none", ds.tokens, ds.components)

\* the message of the Error thrown inside the hook's try block, Null when none
ThrownInHook(o) ==
    CASE o.throws -> Value(o.text)
      [] ~o.throws /\ ~o.ok -> Value("Failed to fetch design system")
      [] ~o.throws /\ o.ok /\ ~o.json -> Value("SyntaxError")
      [] OTHER -> Null

\* variant: App goes on to the tabs although error is set
ScreenWithoutErrorScreen(a) ==
    IF a.loading THEN "loading" ELSE "tabs"

\* what App returns: if (loading) ...; if (error) ...; the tabbed content
Screen(a) ==
    IF a.loading THEN "loading"
    ELSE IF ~a.error.null /\ a.error.value # "" THEN "error"
    ELSE "tabs"

Rendered(a) == [a EXCEPT !.screen = Screen(a)]

\* useEffect(..., []): after the first render the effect calls fetch
RunEffect ==
    /\ app.fetches = 0
    /\ app' = Rendered([app EXCEPT !.fetches = 1, !.pending = TRUE])
    /\ UNCHANGED beside_app

\* the fetch settles: the rest of try, catch and finally, and the re-render
SettleLatest ==
    /\ app.pending
    /\ \E o \in LatestOutcomes, ds \in RepeatingDesignSystems :
          app' = Rendered([app EXCEPT
              !.designSystem = IF ThrownInHook(o) = Null THEN LatestBody(o, ds) ELSE @,
              !.error = IF ThrownInHook(o) = Null THEN @ ELSE ThrownInHook(o),
              !.loading = FALSE,
              !.pending = FALSE])
    /\ UNCHANGED beside_app

\* onClick of a tab button, which exists in the tabbed content only
SetActiveTab ==
    /\ app.screen = "tabs"
    /\ \E tab \in {"explorer", "sandbox"} :
          app' = Rendered([app EXCEPT !.activeTab = tab])
    /\ UNCHANGED beside_app

InitApp ==
    /\ design_system = ServedDesignSystem
    /\ tokens = IndexTokens(design_system)
    /\ components = IndexComponents(design_system)
    /\ spec = Node(Button, <<>>, <<>>, <<>>)
    /\ call = NoCall
    /\ outcome = NoOutcome
    /\ reused = FALSE
    /\ walk = NoWalk
    /\ service = NoService
    /\ sandbox = MountedSandbox
    /\ app = MountedApp

NextApp == RunEffect \/ SettleLatest \/ SetActiveTab

\* React runs the effect of a mounted component
SpecApp == InitApp /\ [][NextApp]_vars /\ WF_vars(RunEffect)

HookSettled == app.fetches = 1 /\ ~app.pending

(***************************************************************************)
(* C20: useDesignSystem issues exactly one fetch after mount; loading is   *)
(* true until that fetch settles and false forever after; once settled     *)
(* exactly one of designSystem and error is non-null; App shows the        *)
(* loading screen while loading, the error screen iff error is set, and    *)
(* the tabbed content, first on the 'explorer' tab, otherwise.             *)
(***************************************************************************)
C20_OneFetchThenDataOrError ==
    /\ [](/\ app.fetches <= 1
          /\ app.loading <=> ~HookSettled
          /\ HookSettled => (app.designSystem.null <=> ~app.error.null)
          /\ ~HookSettled => (app.designSystem.null /\ app.error.null)
          /\ app.screen = "loading" <=> app.loading
          /\ app.screen = "error" <=> ~app.error.null
          /\ app.screen = "tabs" <=> (~app.loading /\ app.error.null))
    /\ [][/\ app'.fetches >= app.fetches
          /\ ~app.loading => ~app'.loading
          /\ (app.screen # "tabs" /\ app'.screen = "tabs") =>
                 app'.activeTab = "explorer"]_vars
    /\ <>(app.fetches = 1)

\* the fetch failed, the error screen is up and no second fetch was made
C20_Witness ==
    /\ HookSettled
    /\ app.screen = "error"
    /\ app.error = Value("Failed to fetch design system")
    /\ app.designSystem.null
    /\ ~app.loading

\* a request was answered
Answered == service.response.status # "none"

LacksField(body) == body.prompt = <<>> \/ body.design_system_id = <<>>

(***************************************************************************)
(* C21 as stated: POST /api/sandbox/generate answers a request that lacks  *)
(* prompt or design_system_id with HTTP status 400, and a request naming a *)
(* design system that does not exist with HTTP status 404.                 *)
(***************************************************************************)
C21_MissingFields400UnknownSystem404 ==
    Answered =>
        /\ LacksField(service.request_body) => service.response.http = 400
        /\ (~LacksField(service.request_body)
                /\ service.request_body.design_system_id # StoredId) =>
              service.response.http = 404

\* a renderer and a tree, and one call of validate, compile or an extractor
NextOnce == ValidateCall \/ JsxCall \/ ExtractTokensCall \/ ExtractComponentsCall

SpecOnce == Init /\ [][NextOnce]_vars

(***************************************************************************)
(* C22: validation is a sufficient precondition for compilation: whenever  *)
(* validate_specification(spec) succeeds, specification_to_jsx(spec) and   *)
(* both extract operations complete without raising.                       *)
(***************************************************************************)
C22_ValidatedSpecCompiles ==
    (/\ call.op \in {"specification_to_jsx", "extract_tokens_from_spec",
                     "extract_components_from_spec"}
     /\ ValidateSpecification(tokens, components, call.spec).ok) =>
        /\ outcome.status = "returned"
        /\ outcome.err = NoError

\* a valid tree with children, a token with a value and one without compiled
C22_Witness ==
    /\ JsxCalled
    /\ ValidateSpecification(tokens, components, call.spec).ok
    /\ outcome.status = "returned"
    /\ Len(PreOrder(call.spec)) = MaxNodes
    /\ {Primary500, Accent900} \subseteq TokenRefsOf(call.spec)

(***************************************************************************)
(* C23: the Sandbox has at most one generate request in flight at any      *)
(* time; while loading is true no user action (button click or Enter)      *)
(* starts a second request.                                                *)
(***************************************************************************)
C23_AtMostOneRequestInFlight ==
    /\ Cardinality({r \in 1..Len(sandbox.requests) : InFlight(r)}) <= 1
    /\ (sandbox.event.type \in {"enter", "click"} /\ sandbox.event.request > 1) =>
          HasSettled(sandbox.event.request - 1)

(***************************************************************************)
(* C24: in every reachable Sandbox state result and error are never both   *)
(* non-null, and loading is true exactly while some generate request is in *)
(* flight.                                                                 *)
(***************************************************************************)
C24_ResultOrErrorAndLoadingWhileInFlight ==
    /\ ~(sandbox.result # NullData /\ sandbox.error # Null)
    /\ sandbox.loading <=> (\E r \in 1..Len(sandbox.requests) : InFlight(r))

(***************************************************************************)
(* C25: the displayed result always belongs to the most recently started   *)
(* request; the late response of an earlier request never becomes or       *)
(* overwrites the displayed result or error.                               *)
(***************************************************************************)
C25_LateResponseChangesNothing ==
    [][/\ sandbox'.result # NullData =>
             sandbox'.result.request = Len(sandbox'.requests)
       /\ (sandbox'.event.type = "settled"
              /\ sandbox'.event.request < Len(sandbox.requests)) =>
             /\ sandbox'.result = sandbox.result
             /\ sandbox'.error = sandbox.error]_vars

\* the tree with the content of every node that has children taken away
RECURSIVE WithoutParentContent(_)
RECURSIVE WithoutParentContentAll(_)
WithoutParentContent(node) ==
    Node(node.type, node.props,
         IF node.children # <<>> THEN <<>> ELSE node.content,
         WithoutParentContentAll(node.children))

WithoutParentContentAll(children) ==
    IF children = <<>> THEN <<>>
    ELSE <<WithoutParentContent(Head(children))>>
         \o WithoutParentContentAll(Tail(children))

HasChildrenAndContent(node) == node.children # <<>> /\ node.content # <<>>

(***************************************************************************)
(* C26: for a node with both non-empty children and non-empty content,     *)
(* validate_specification accepts the node as it accepts it without the    *)
(* content, and the compiler emits the opening tag, the compiled children  *)
(* and the closing tag, and omits the content text.                        *)
(***************************************************************************)
C26_ContentOfParentOmitted ==
    /\ (ValidateCalled /\ \E n \in NodesOf(call.spec) : HasChildrenAndContent(n)) =>
          /\ (outcome.status = "returned") <=>
                ValidateSpecification(tokens, components,
                                      WithoutParentContent(call.spec)).ok
          /\ UsesOnlyDesignSystem(design_system, call.spec) =>
                outcome.status = "returned"
    /\ (JsxCalled /\ outcome.status = "returned") =>
          /\ outcome.jsx = SpecificationToJsx(tokens, components,
                               WithoutParentContent(call.spec), call.depth).val
          /\ HasChildrenAndContent(call.spec) =>
                LET s == call.spec
                    ls == LinesOf(outcome.jsx)
                    n == Len(ls)
                IN  /\ n >= 3
                    /\ ls[1] = Indent(call.depth) \o <<"<">> \o s.type \o <<" ">>
                                 \o ResolveProps(tokens, s.props).val \o <<">">>
                    /\ SubSeq(ls, 2, n - 1) =
                          ChildrenLines(tokens, components, s.children,
                                        call.depth + 1)
                    /\ ls[n] = Indent(call.depth) \o ClosingTag(s.type)
                    /\ ~Contains(ls[1], s.content)

\* a node with content "G" and two children compiled, without the "G"
C26_Witness ==
    /\ JsxCalled
    /\ outcome.status = "returned"
    /\ call.spec.content = Go
    /\ Len(call.spec.children) = 2
    /\ call.spec.children[1].content = <<>>
    /\ call.spec.children[2].content = <<>>
    /\ ~Contains(outcome.jsx, Go)

Names(records) == {r.name : r \in Range(records)}

\* the record of the name in the later sub-collection: spacing over typography
\* over colors
LaterRecord(ds, nm) ==
    IF nm \in Names(ds.tokens.spacing) THEN LastNamed(ds.tokens.spacing, nm)
    ELSE IF nm \in Names(ds.tokens.typography) THEN LastNamed(ds.tokens.typography, nm)
    ELSE LastNamed(ds.tokens.colors, nm)

(***************************************************************************)
(* C27: the token index is one flat namespace over colors, typography and  *)
(* spacing: a name that occurs in more than one sub-collection maps to the *)
(* record of the later sub-collection, and a reference to that name        *)
(* resolves to the later record.                                           *)
(***************************************************************************)
C27_LaterSubCollectionWins ==
    /\ DOMAIN tokens = Names(design_system.tokens.colors)
                          \cup Names(design_system.tokens.typography)
                          \cup Names(design_system.tokens.spacing)
    /\ \A nm \in DOMAIN tokens : tokens[nm] = LaterRecord(design_system, nm)
    /\ (JsxCalled /\ outcome.status = "returned") =>
          \A i \in TokenRefProps(call.spec) :
              LET nm == call.spec.props[i].value.s
                  r == LaterRecord(design_system, nm)
              IN  /\ ResolveToken(tokens, nm).val = IF r.has_value THEN r.value ELSE nm
                  /\ Contains(outcome.jsx,
                              AttributeText(call.spec.props[i].key,
                                            IF r.has_value THEN r.value ELSE nm))

\* one name among the colors, the typography and the spacing tokens, and the
\* compiler reading the spacing record
C27_Witness ==
    /\ design_system.tokens.colors = <<Token(Primary500, TRUE, Blue)>>
    /\ design_system.tokens.typography = <<Token(Primary500, FALSE, <<>>)>>
    /\ design_system.tokens.spacing = <<Token(Primary500, TRUE, Red)>>
    /\ JsxCalled
    /\ outcome.status = "returned"
    /\ Contains(outcome.jsx, AttributeText(<<"c">>, Red))

\* the props of the node that refer to an indexed token without a value
ValuelessRefProps(ts, node) ==
    {i \in TokenRefProps(node) :
        /\ node.props[i].value.s \in DOMAIN ts
        /\ ~ts[node.props[i].value.s].has_value}

(***************************************************************************)
(* C28: a token reference that names an indexed token with no `value`      *)
(* field (the typography tokens of the plugin) passes                      *)
(* validate_specification, and the compiler emits the reference name       *)
(* itself as the attribute value.                                          *)
(***************************************************************************)
C28_ValuelessTokenEmittedByName ==
    LET ns == PreOrder(call.spec)
        valueless == {k \in 1..Len(ns) : ValuelessRefProps(tokens, ns[k]) # {}}
    IN  /\ (ValidateCalled /\ outcome.status = "raised") =>
              \A k \in valueless : \A i \in ValuelessRefProps(tokens, ns[k]) :
                  outcome.err.name # ns[k].props[i].value.s
        /\ (ValidateCalled /\ valueless # {}
               /\ UsesOnlyDesignSystem(design_system, call.spec)) =>
              outcome.status = "returned"
        /\ (JsxCalled /\ outcome.status = "returned") =>
              LET tags == ElementTagsOf(outcome.jsx)
              IN  \A k \in valueless : \A i \in ValuelessRefProps(tokens, ns[k]) :
                      /\ ResolveToken(tokens, ns[k].props[i].value.s).ok
                      /\ ResolveToken(tokens, ns[k].props[i].value.s).val =
                            ns[k].props[i].value.s
                      /\ Contains(tags[k],
                                  AttributeText(ns[k].props[i].key,
                                                ns[k].props[i].value.s))

\* accent/900 is a typography token without a value; c="accent/900" is emitted
C28_Witness ==
    /\ JsxCalled
    /\ outcome.status = "returned"
    /\ Accent900 \in DOMAIN tokens
    /\ ~tokens[Accent900].has_value
    /\ call.spec.props = <<Prop(<<"c">>, StrV(Accent900))>>
    /\ Contains(outcome.jsx, AttributeText(<<"c">>, Accent900))

\* the component type a tag names
TagName(t) ==
    IF IsClosingTag(t) THEN SubSeq(t, 3, Len(t) - 1)
    ELSE SubSeq(t, 2, Find(t, " ", 1) - 1)

Placed(type, depth) == [type |-> type, depth |-> depth]

\* the tags read from the i-th on with a stack of the open elements: whether
\* every closing tag closes the innermost open element and none stays open,
\* and the elements in the order they start, each with its nesting depth
RECURSIVE Nesting(_, _, _, _)
Nesting(tags, i, open, elements) ==
    IF i > Len(tags) THEN [ok |-> open = <<>>, elements |-> elements]
    ELSE IF IsClosingTag(tags[i])
    THEN IF open # <<>> /\ open[Len(open)] = TagName(tags[i])
         THEN Nesting(tags, i + 1, SubSeq(open, 1, Len(open) - 1), elements)
         ELSE [ok |-> FALSE, elements |-> elements]
    ELSE Nesting(tags, i + 1,
                 IF IsOpeningTag(tags[i]) THEN Append(open, TagName(tags[i])) ELSE open,
                 Append(elements, Placed(TagName(tags[i]), Len(open))))

\* the nodes of a tree in depth-first pre-order, each with its depth
RECURSIVE PlacedNodes(_, _)
RECURSIVE PlacedNodesAll(_, _)
PlacedNodes(node, d) == <<Placed(node.type, d)>> \o PlacedNodesAll(node.children, d + 1)

PlacedNodesAll(children, d) ==
    IF children = <<>> THEN <<>>
    ELSE PlacedNodes(Head(children), d) \o PlacedNodesAll(Tail(children), d)

\* content that is itself markup: an element, a closing tag
MarkupContents == {<<"<", "B", " ", "/", ">">>, <<"<", "/", "T", ">">>}

\* the tree with every content replaced by the text
RECURSIVE WithContent(_, _)
RECURSIVE WithContentAll(_, _)
WithContent(node, text) ==
    Node(node.type, node.props,
         IF node.content # <<>> THEN text ELSE <<>>,
         WithContentAll(node.children, text))

WithContentAll(children, text) ==
    IF children = <<>> THEN <<>>
    ELSE <<WithContent(Head(children), text)>> \o WithContentAll(Tail(children), text)

\* a renderer and a tree whose content may hold markup characters, compiled
InitMarkup ==
    /\ design_system \in DesignSystems
    /\ tokens = IndexTokens(design_system)
    /\ components = IndexComponents(design_system)
    /\ spec \in Specs \cup {WithContent(s, text) : s \in Specs, text \in MarkupContents}
    /\ call = NoCall
    /\ outcome = NoOutcome
    /\ reused = FALSE
    /\ walk = NoWalk
    /\ service = NoService
    /\ sandbox = MountedSandbox
    /\ app = MountedApp

NextMarkup == JsxCall

SpecMarkup == InitMarkup /\ [][NextMarkup]_vars

(***************************************************************************)
(* C29: the markup of every successfully compiled spec is structurally     *)
(* faithful to the tree: exactly one element per node, the elements in     *)
(* depth-first pre-order, and every opening tag closed by a closing tag of *)
(* the same type, properly nested (a child's element lies between its      *)
(* parent's opening and closing tags).                                     *)
(***************************************************************************)
C29_MarkupFaithfulToTree ==
    (JsxCalled /\ outcome.status = "returned") =>
        LET tags == TagsOf(outcome.jsx)
            read == Nesting(tags, 1, <<>>, <<>>)
        IN  /\ read.ok
            /\ read.elements = PlacedNodes(call.spec, 0)
            /\ Len(ElementTagsOf(outcome.jsx)) = Len(PreOrder(call.spec))

\* the body of the r-th request the Sandbox sent: JSON.stringify({ prompt })
BodySent(r) == RequestBody(sandbox.requests[r].prompt, NoId)

(***************************************************************************)
(* C30: every generate request the Sandbox sends for a non-empty prompt    *)
(* carries all the fields the endpoint requires (prompt and               *)
(* design_system_id), so that it passes the endpoint's required-field      *)
(* check and reaches the sandbox agent.                                    *)
(***************************************************************************)
C30_RequestCarriesRequiredFields ==
    \A r \in 1..Len(sandbox.requests) :
        /\ BodySent(r).prompt # <<>>
        /\ BodySent(r).design_system_id # NoId
        /\ ~LacksField(BodySent(r))

====
